---- MODULE Spec2Model ----
(***************************************************************************)
(* Statistic::PointDetailsWidget                                           *)
(* (Telegram/SourceFiles/statistics/point_details_widget.cpp).             *)
(*                                                                         *)
(* The popup that shows, for one point of a statistics chart, a timestamp  *)
(* header and one name/value line per chart series.  The model keeps the   *)
(* widget's fields, the Qt attribute and geometry the code sets, and one   *)
(* action per public operation and per paint event.                        *)
(*                                                                         *)
(* Numbers: a float64 alpha is kept as a whole number of 1/AlphaOne units  *)
(* (dyadic steps are exact in float64, so the sums and std::ceil below are *)
(* the ones the code computes).  A text is the sequence of its characters; *)
(* its width is the number of characters times the width of one character *)
(* of the style.                                                           *)
(***************************************************************************)
EXTENDS Integers, Sequences, FiniteSets, TLC

\* ------------------------------------------------------------------ bounds

\* Number of series (lines) of the chart.
NumSeries == 2
\* Number of points on the x axis.
NumPoints == 2
\* Alpha 1.0 in model units: the alphas are 0/AlphaOne .. AlphaOne/AlphaOne.
AlphaOne == 2

\* ------------------------------------------------- style sheet and toolkit

\* Pixel sizes of the style sheet and of the fonts, which the code reads
\* through st:: and font->height (the style sheet itself is not part of
\* this file).  All are positive.

\* st::statisticsDetailsPopupPadding (left, top, right, bottom).
PaddingLeft == 6
PaddingTop == 6
PaddingRight == 6
PaddingBottom == 6
\* st::statisticsDetailsPopupMargins.
MarginsLeft == 8
MarginsTop == 8
MarginsRight == 8
MarginsBottom == 8
\* st::statisticsDetailsPopupMidLineSpace.
MidLineSpace == 8
\* _textStyle.font->height and _headerStyle.font->height.
TextFontHeight == 15
HeaderFontHeight == 18
\* Width of one character in _textStyle and in _headerStyle.
TextCharWidth == 7
HeaderCharWidth == 8
\* The geometry Qt gives a child widget before anyone resizes it.
DefaultWidth == 100
DefaultHeight == 30

\* ------------------------------------------------------------- chart data

SecMs == 1000
MinuteSecs == 60
HourSecs == 3600
DaySecs == 86400

\* First timestamps of a chart, in milliseconds, and the step between points.
Starts == {0 - 500, 0, 30 * SecMs, 60 * SecMs}
Steps == {HourSecs * SecMs}
\* Offsets of the local time zone from UTC, in seconds (UTC+05:30).
UtcOffsets == {19800}

\* Values a series takes, in the order a series cycles through them.
ValueList == <<0 - 7, 0, 0, 1234>>

IdBase == 10
\* dataLine.id, dataLine.name, dataLine.color of series j.
LineId(j) == IdBase + j
LineName(j) == [k \in 1..(3 + j) |-> "n"]
LineColor(j) == <<"color", j>>

Series == 1..NumSeries
\* Valid indices are 0-based, as in the code.
ValidIndices == 0..(NumPoints - 1)
\* Indices setXIndex is called with: the valid ones and -1 (none).
Indices == {0 - 1} \cup ValidIndices
Alphas == 0..AlphaOne
\* Opacities setAlpha is called with: hidden and shown.
Opacities == {0, AlphaOne}
\* Ids setLineAlpha is called with: every series id, and one of no series.
LineIds == (IdBase + 1)..(IdBase + NumSeries + 1)

\* Data::StatisticalChart with x = start, start + step, ... and series j
\* cycling through ValueList from place base + j.
Chart(start, step, base) ==
    [x |-> [i \in 1..NumPoints |-> start + (i - 1) * step],
     lines |-> [j \in Series |->
        [id |-> LineId(j),
         name |-> LineName(j),
         color |-> LineColor(j),
         y |-> [i \in 1..NumPoints |->
                    ValueList[((base + j + i) % Len(ValueList)) + 1]]]]]

\* _chartData.x[i] and dataLine.y[i] for a 0-based i.
XAt(chart, i) == chart.x[i + 1]
YAt(chart, j, i) == chart.lines[j].y[i + 1]

Abs(n) == IF n < 0 THEN 0 - n ELSE n

RECURSIVE MaxAbs(_, _)
MaxAbs(chart, cells) ==
    IF cells = {} THEN 0
    ELSE LET c == CHOOSE c \in cells : TRUE
             rest == MaxAbs(chart, cells \ {c})
             v == Abs(chart.lines[c[1]].y[c[2]])
         IN IF v > rest THEN v ELSE rest

\* The maxAbsoluteValue the caller passes to the constructor.
MaxAbsoluteValue(chart) == MaxAbs(chart, Series \X (1..NumPoints))

VARIABLES
    _zoomEnabled,   \* constructor argument
    _chartData,     \* constructor argument
    utcOffset,      \* the process's local time zone
    _xIndex,
    _header,
    _lines,
    _alpha,
    transparent,    \* Qt::WA_TransparentForMouseEvents
    size,           \* QWidget::size()
    _innerRect,
    _textRect,
    last            \* the most recent call, and what a paint event drew

vars == <<_zoomEnabled, _chartData, utcOffset, _xIndex, _header, _lines,
          _alpha, transparent, size, _innerRect, _textRect, last>>

\* ------------------------------------------------------------ texts, rects

\* Ui::Text::String::maxWidth() of a text in a style.
MaxWidth(text, charWidth) == Len(text) * charWidth

Max(a, b) == IF a > b THEN a ELSE b

Digit(d) == <<"0", "1", "2", "3", "4", "5", "6", "7", "8", "9">>[d + 1]

\* The digits of n >= 0, a group separator before every third digit from
\* the right.
RECURSIVE Grouped(_, _)
Grouped(n, pos) ==
    IF n < 10 THEN <<Digit(n)>>
    ELSE Grouped(n \div 10, pos + 1)
            \o (IF (pos + 1) % 3 = 0 THEN <<",">> ELSE <<>>)
            \o <<Digit(n % 10)>>

\* QString("%L1").arg(value): the localized decimal text of a whole number.
FormatValue(value) ==
    IF value < 0 THEN <<"-">> \o Grouped(0 - value, 0) ELSE Grouped(value, 0)

\* QRect(0, 0, w, h) and QRect - QMargins.
Rect(w, h) == [x |-> 0, y |-> 0, w |-> w, h |-> h]
RectMinus(r, left, top, right, bottom) ==
    [x |-> r.x + left, y |-> r.y + top,
     w |-> r.w - left - right, h |-> r.h - top - bottom]

\* ------------------------------------------------------- FormatTimestamp

\* Conversion of a float64 to qint64: towards zero.
TruncDiv(a, b) == IF a >= 0 THEN a \div b ELSE 0 - ((0 - a) \div b)

\* Day of the month of a day counted from 1970-01-01 (December 1969 and
\* January 1970, the months the timestamps of the model fall in).
DayOfMonth(day) == IF day < 0 THEN 32 + day ELSE day + 1

FormatTimestampHourOnly(timestamp, offset) ==
    LET secs == TruncDiv(timestamp, SecMs)
        utc == secs % DaySecs
        local == secs + offset
    IN IF utc \div HourSecs # 0
       THEN [kind |-> "long", day |-> local \div DaySecs,
             hour |-> (local % DaySecs) \div HourSecs,
             minute |-> (local % HourSecs) \div MinuteSecs]
       ELSE [kind |-> "short", day |-> local \div DaySecs]

\* The header text: the local date and time when the UTC hour or the UTC
\* minute of the timestamp is not zero, the local date alone otherwise.
FormatTimestamp(timestamp, offset) ==
    LET secs == TruncDiv(timestamp, SecMs)
        utc == secs % DaySecs
        local == secs + offset
    IN IF utc \div HourSecs # 0 \/ (utc % HourSecs) \div MinuteSecs # 0
       THEN [kind |-> "long", day |-> local \div DaySecs,
             hour |-> (local % DaySecs) \div HourSecs,
             minute |-> (local % HourSecs) \div MinuteSecs]
       ELSE [kind |-> "short", day |-> local \div DaySecs]

\* The characters of a formatted timestamp: "ddd, MMM d hh:mm" or
\* "ddd, MMM d".
TimestampText(t) ==
    LET date == <<"d", "d", "d", ",", " ", "M", "M", "M", " ">>
                    \o Grouped(DayOfMonth(t.day), 0)
    IN IF t.kind = "long"
       THEN date \o <<" ", Digit(t.hour \div 10), Digit(t.hour % 10), ":",
                      Digit(t.minute \div 10), Digit(t.minute % 10)>>
       ELSE date

NoText == [kind |-> "empty"]

\* ------------------------------------------------------------ constructor

RECURSIVE MaxNameWidth(_, _)
MaxNameWidth(chart, n) ==
    IF n = 0 THEN 0
    ELSE Max(MaxWidth(chart.lines[n].name, TextCharWidth),
             MaxNameWidth(chart, n - 1))

calculatedWidth(chart, maxAbsoluteValue, offset) ==
    LET maxValueTextWidth ==
            MaxWidth(FormatValue(maxAbsoluteValue), TextCharWidth)
        maxHeaderWidth ==
            MaxWidth(TimestampText(FormatTimestamp(chart.x[1], offset)),
                     HeaderCharWidth)
        maxNameTextWidth ==
            Max(maxHeaderWidth + PaddingLeft,
                MaxNameWidth(chart, Len(chart.lines)))
    IN maxValueTextWidth
        + (MarginsLeft + MarginsRight)
        + (PaddingLeft + PaddingRight)
        + PaddingLeft
        + maxNameTextWidth

\* The sizeValue() handler: the rects of a widget of size w x h.
InnerRectOf(w, h, width) ==
    LET fullRect == IF w = 0 /\ h = 0 THEN Rect(width, width) ELSE Rect(w, h)
    IN RectMinus(fullRect, PaddingLeft, PaddingTop, PaddingRight, PaddingBottom)

TextRectOf(w, h, width) ==
    RectMinus(InnerRectOf(w, h, width),
              MarginsLeft, MarginsTop, MarginsRight, MarginsBottom)

\* ----------------------------------------------------------------- layout

LinesHeightNoAlpha(lines, index) ==
    IF index <= 0 THEN 0
    ELSE index * AlphaOne * (TextFontHeight + MidLineSpace)

\* The loop of lineYAt: the heights of the lines before `index`, in units
\* of 1/AlphaOne; a slot past the end of the list counts with alpha 1.
RECURSIVE LinesHeight(_, _)
LinesHeight(lines, index) ==
    IF index <= 0 THEN 0
    ELSE LET i == index - 1
             alpha == IF i >= Len(lines) THEN AlphaOne ELSE lines[i + 1].alpha
         IN LinesHeight(lines, i) + alpha * (TextFontHeight + MidLineSpace)

\* std::ceil of h / AlphaOne, h >= 0.
Ceil(h) == (h + AlphaOne - 1) \div AlphaOne

lineYAtInclusive(lines, textRect, index) ==
    textRect.y + HeaderFontHeight + MarginsBottom
        + Ceil(LinesHeight(lines, index + 1))

lineYAt(lines, textRect, index) ==
    textRect.y + HeaderFontHeight + MarginsBottom
        + Ceil(LinesHeight(lines, index))

resizeHeightSquare(sz, lines, textRect) ==
    LET h == lineYAt(lines, textRect, NumSeries) + MarginsBottom
    IN [w |-> h, h |-> h]

\* resizeHeight(): the size after resize(width(), lineYAt(N) + bottom).
resizeHeight(sz, lines, textRect) ==
    [w |-> sz.w, h |-> lineYAt(lines, textRect, NumSeries) + MarginsBottom]

\* -------------------------------------------------------------- the lines

\* A Line as setXIndex builds it; Line::alpha starts at 1.
NewLine(dataLine, value) ==
    [id |-> dataLine.id,
     name |-> dataLine.name,
     value |-> FormatValue(value),
     valueColor |-> dataLine.color,
     alpha |-> AlphaOne]

BuildLinesFirstPoint(chart, k) ==
    [j \in 1..Len(chart.lines) |-> NewLine(chart.lines[j], YAt(chart, j, 0))]

BuildLinesKeepAlpha(chart, k) ==
    [j \in 1..Len(chart.lines) |->
        [NewLine(chart.lines[j], YAt(chart, j, k)) EXCEPT
            !.alpha = IF j <= Len(_lines) THEN _lines[j].alpha ELSE AlphaOne]]

\* _lines after the loop of setXIndex(k): one line per series, in order.
BuildLines(chart, k) ==
    [j \in 1..Len(chart.lines) |-> NewLine(chart.lines[j], YAt(chart, j, k))]

hasNonZeroValues(chart, k) ==
    \E j \in 1..Len(chart.lines) : YAt(chart, j, k) # 0

\* hasPositiveValues after the loop of setXIndex(k).
hasPositiveValues(chart, k) ==
    \E j \in 1..Len(chart.lines) : YAt(chart, j, k) > 0

WithLineAlphaFirst(lines, lineId, alpha) ==
    [j \in 1..Len(lines) |->
        IF lines[j].id = lineId \/ (j = 1 /\ \A n \in 1..Len(lines) : lines[n].id # lineId)
        THEN [lines[j] EXCEPT !.alpha = alpha]
        ELSE lines[j]]

\* _lines after the loop of setLineAlpha(lineId, alpha).
WithLineAlpha(lines, lineId, alpha) ==
    [j \in 1..Len(lines) |->
        IF lines[j].id = lineId
        THEN [lines[j] EXCEPT !.alpha = alpha]
        ELSE lines[j]]

\* ------------------------------------------------------------------ events

\* The record of a call: the operation, its arguments, and a flag: for
\* setXIndex that the index is the one already active, for setLineAlpha that
\* the id is that of a line of the list.
Event(op, args, flag) ==
    [op |-> op, args |-> args, flag |-> flag, drawn |-> <<>>]

\* The width the constructor computes and its sizeValue() handler keeps.
Width == calculatedWidth(_chartData, MaxAbsoluteValue(_chartData), utcOffset)

\* resize(w, h) and the sizeValue() handler it runs.
Resize(sz) ==
    /\ size' = sz
    /\ _innerRect' = InnerRectOf(sz.w, sz.h, Width)
    /\ _textRect' = TextRectOf(sz.w, sz.h, Width)

\* The widget when the constructor returns.
Init ==
    /\ _zoomEnabled \in BOOLEAN
    /\ utcOffset \in UtcOffsets
    /\ \E start \in Starts, step \in Steps,
          base \in 1..Len(ValueList) :
            _chartData = Chart(start, step, base)
    /\ _xIndex = 0 - 1
    /\ _header = NoText
    /\ _lines = <<>>
    /\ _alpha = AlphaOne
    /\ transparent = FALSE
    /\ LET \* sizeValue() starts with the size Qt gave the widget; then
           \* resize(calculatedWidth, height()); then resizeHeight().
           first == [w |-> DefaultWidth, h |-> DefaultHeight]
           second == [w |-> Width, h |-> first.h]
           third == resizeHeight(second, <<>>,
                                 TextRectOf(second.w, second.h, Width))
       IN /\ size = third
          /\ _innerRect = InnerRectOf(third.w, third.h, Width)
          /\ _textRect = TextRectOf(third.w, third.h, Width)
    /\ last = Event("PointDetailsWidget", <<>>, FALSE)

setXIndexClearFirst(xIndex) ==
    /\ _xIndex' = xIndex
    /\ _lines' = IF xIndex < 0 THEN <<>> ELSE BuildLines(_chartData, xIndex)
    /\ IF xIndex < 0
       THEN UNCHANGED <<_header, transparent>>
       ELSE /\ _header' = FormatTimestamp(XAt(_chartData, xIndex), utcOffset)
            /\ transparent' =
                ~(_zoomEnabled /\ hasPositiveValues(_chartData, xIndex))
    /\ last' = Event("setXIndex", <<xIndex>>, xIndex = _xIndex)
    /\ UNCHANGED <<_zoomEnabled, _chartData, utcOffset, _alpha, size,
                   _innerRect, _textRect>>

setXIndex(xIndex) ==
    /\ _xIndex' = xIndex
    /\ IF xIndex < 0
       THEN UNCHANGED <<_header, _lines, transparent>>
       ELSE /\ _header' = FormatTimestamp(XAt(_chartData, xIndex), utcOffset)
            /\ _lines' = BuildLines(_chartData, xIndex)
            /\ transparent' =
                ~(_zoomEnabled /\ hasPositiveValues(_chartData, xIndex))
    /\ last' = Event("setXIndex", <<xIndex>>, xIndex = _xIndex)
    /\ UNCHANGED <<_zoomEnabled, _chartData, utcOffset, _alpha, size,
                   _innerRect, _textRect>>

setLineAlpha(lineId, alpha) ==
    /\ _lines' = WithLineAlpha(_lines, lineId, alpha)
    /\ Resize(resizeHeight(size, _lines', _textRect))
    /\ last' = Event("setLineAlpha", <<lineId, alpha>>,
                     \E j \in 1..Len(_lines) : _lines[j].id = lineId)
    /\ UNCHANGED <<_zoomEnabled, _chartData, utcOffset, _xIndex, _header,
                   _alpha, transparent>>

setAlpha(alpha) ==
    /\ _alpha' = alpha
    /\ last' = Event("setAlpha", <<alpha>>, FALSE)
    /\ UNCHANGED <<_zoomEnabled, _chartData, utcOffset, _xIndex, _header,
                   _lines, transparent, size, _innerRect, _textRect>>

\* What paintEvent draws, in order: each item with its position and its
\* opacity (in units of 1 / AlphaOne^2).
Drawn ==
    LET opaque == _alpha * AlphaOne
        line(i) ==
            LET l == _lines[i + 1]
                lineY == lineYAt(_lines, _textRect, i)
                valueWidth == MaxWidth(l.value, TextCharWidth)
            IN <<[item |-> "name", text |-> l.name,
                  x |-> _textRect.x, y |-> lineY,
                  outerWidth |-> _textRect.w - valueWidth,
                  opacity |-> l.alpha * l.alpha],
                 [item |-> "value", text |-> l.value, color |-> l.valueColor,
                  x |-> (_textRect.x + _textRect.w) - valueWidth, y |-> lineY,
                  opacity |-> l.alpha * l.alpha]>>
    IN <<[item |-> "shadow", rect |-> _innerRect, opacity |-> opaque],
         [item |-> "background", rect |-> _innerRect, opacity |-> opaque],
         [item |-> "header", text |-> _header,
          x |-> _textRect.x, y |-> _textRect.y,
          availableWidth |-> _textRect.w, opacity |-> opaque]>>
       \o [n \in 1..(2 * Len(_lines)) |-> line((n - 1) \div 2)[((n - 1) % 2) + 1]]

paintEvent ==
    /\ last' = [Event("paintEvent", <<>>, FALSE) EXCEPT !.drawn = Drawn]
    /\ UNCHANGED <<_zoomEnabled, _chartData, utcOffset, _xIndex, _header,
                   _lines, _alpha, transparent, size, _innerRect, _textRect>>

Next ==
    \/ \E xIndex \in Indices : setXIndex(xIndex)
    \/ \E lineId \in LineIds, alpha \in Alphas : setLineAlpha(lineId, alpha)
    \/ \E alpha \in Opacities : setAlpha(alpha)
    \/ paintEvent

Spec == Init /\ [][Next]_vars

\* xIndex().
xIndex == _xIndex

\* ------------------------------------------------------------- properties

\* The alpha of each series: that of the line with the series' id, and the
\* initial alpha 1 while the list has no such line.
AlphaOf(lines) ==
    [j \in Series |->
        IF \E n \in 1..Len(lines) : lines[n].id = LineId(j)
        THEN lines[CHOOSE n \in 1..Len(lines) : lines[n].id = LineId(j)].alpha
        ELSE AlphaOne]

\* What a line shows: everything but its alpha.
Contents(lines) ==
    [n \in 1..Len(lines) |->
        [id |-> lines[n].id, name |-> lines[n].name,
         value |-> lines[n].value, valueColor |-> lines[n].valueColor]]

\* The sum, over the lines whose place is in `places`, of alpha times
\* (font height + space between lines), in units of 1/AlphaOne.
RECURSIVE SumOver(_, _)
SumOver(lines, places) ==
    IF places = {} THEN 0
    ELSE LET n == CHOOSE n \in places : TRUE
         IN lines[n].alpha * (TextFontHeight + MidLineSpace)
                + SumOver(lines, places \ {n})

\* C1 as stated: in every state, a widget constructed with zoomEnabled =
\* false is mouse-transparent, and one constructed with zoomEnabled = true is
\* non-transparent iff some series value at the active index is positive.
C1_TransparentInEveryState ==
    IF _zoomEnabled
    THEN (~transparent) <=>
            (_xIndex >= 0
                /\ \E j \in Series : _chartData.lines[j].y[_xIndex + 1] >= 1)
    ELSE transparent

\* C1 amended: the attribute is what the most recent setXIndex with a
\* non-negative index set.  While the active index is non-negative the widget
\* is transparent unless zoom is enabled and some series value at that index
\* is positive; no other step changes the attribute; before the first such
\* call (no lines yet) the attribute is not set.
C1_TransparencySetBySetXIndex ==
    /\ [](_xIndex >= 0 =>
            (transparent <=>
                ~(_zoomEnabled
                    /\ \E j \in Series :
                           _chartData.lines[j].y[_xIndex + 1] >= 1)))
    /\ [](_lines = <<>> => ~transparent)
    /\ [][(last'.op = "setXIndex" /\ _xIndex' >= 0)
            \/ transparent' = transparent]_vars

\* C1 witness: zoom enabled, setXIndex chose a point where no value is
\* positive and one is negative, and the widget is transparent.
C1_Witness ==
    /\ _zoomEnabled
    /\ last.op = "setXIndex"
    /\ _xIndex >= 0
    /\ \E j \in Series : _chartData.lines[j].y[_xIndex + 1] < 0
    /\ transparent

\* C2 as stated: the header of the active point is in the long format iff
\* the UTC time of day of x[i], seconds included, is not zero.
C2_LongIffTimeOfDayNonZero ==
    _xIndex >= 0 =>
        ((_header.kind = "long")
            <=> ((XAt(_chartData, _xIndex) \div SecMs) % DaySecs # 0))

\* C2 amended: the header of the active point is in the long format iff the
\* UTC hour or the UTC minute of x[i] (in whole seconds, the fraction cut
\* off towards zero) is not zero, that is iff at least one minute has passed
\* since UTC midnight; the seconds do not count.
C2_LongIffHourOrMinuteNonZero ==
    _xIndex >= 0 =>
        LET x == XAt(_chartData, _xIndex)
            secs == IF x >= 0 THEN x \div SecMs ELSE 0 - ((0 - x) \div SecMs)
        IN /\ _header.kind \in {"long", "short"}
           /\ (_header.kind = "long") <=> (secs % DaySecs >= MinuteSecs)

\* C2 witness: the active point is seconds, but no minute, after UTC
\* midnight, and its header is in the short format.
C2_Witness ==
    /\ _xIndex >= 0
    /\ (XAt(_chartData, _xIndex) \div SecMs) % DaySecs \in 1..(MinuteSecs - 1)
    /\ _header.kind = "short"

\* C3 as stated: setXIndex(k) with k < 0 changes nothing, the active index
\* included.
C3_NegativeIndexChangesNothing ==
    [][(last'.op = "setXIndex" /\ last'.args[1] < 0) =>
            UNCHANGED <<_xIndex, _header, _lines, transparent, size>>]_vars

\* C3 amended: setXIndex(k) with k < 0 makes k the active index and changes
\* nothing else: header, lines (ids, names, values, colors, alphas), mouse
\* transparency, opacity, size and rects stay.
C3_NegativeIndexOnlySetsIndex ==
    [][(last'.op = "setXIndex" /\ last'.args[1] < 0) =>
            /\ _xIndex' = last'.args[1]
            /\ UNCHANGED <<_header, _lines, transparent, _alpha, size,
                           _innerRect, _textRect>>]_vars

\* C3 witness: setXIndex(-1) was the last call, on a widget that shows the
\* lines of a point and has a faded line.
C3_Witness ==
    /\ last.op = "setXIndex"
    /\ last.args = <<0 - 1>>
    /\ ~last.flag
    /\ _xIndex = 0 - 1
    /\ Len(_lines) = NumSeries
    /\ \E n \in 1..Len(_lines) : _lines[n].alpha # AlphaOne

\* C4: while a valid index i is active the list has one line per series, in
\* the series' order, line j with series j's id, name and color and the
\* text of y[i] of series j, and the header is the formatted x[i]; a second
\* setXIndex(i) leaves the lines' contents and the header as they were.
C4_LinesOfActiveIndex ==
    /\ [](_xIndex >= 0 =>
            /\ Len(_lines) = NumSeries
            /\ \A j \in Series :
                /\ _lines[j].id = _chartData.lines[j].id
                /\ _lines[j].name = _chartData.lines[j].name
                /\ _lines[j].valueColor = _chartData.lines[j].color
                /\ _lines[j].value
                    = FormatValue(_chartData.lines[j].y[_xIndex + 1])
            /\ _header
                = FormatTimestamp(_chartData.x[_xIndex + 1], utcOffset))
    /\ [][(last'.op = "setXIndex" /\ _xIndex >= 0 /\ _xIndex' = _xIndex) =>
            /\ Contents(_lines') = Contents(_lines)
            /\ _header' = _header]_vars

\* C4 witness: setXIndex was called a second time with the same valid index,
\* which is not the first point, and a value shown has a group separator.
C4_Witness ==
    /\ last.op = "setXIndex"
    /\ last.flag
    /\ _xIndex >= 1
    /\ \E j \in Series : _lines[j].value = <<"1", ",", "2", "3", "4">>

\* C5: after setLineAlpha(id, 0) for the id of a line of the list, the
\* height is lineYAt(0) plus the rounded-up sum, over the lines with another
\* id, of alpha times (font height + space), plus the bottom margin.
C5_HiddenLineLeftOut ==
    [][(/\ last'.op = "setLineAlpha"
        /\ last'.args[2] = 0
        /\ \E n \in 1..Len(_lines) : _lines[n].id = last'.args[1]) =>
            LET id == last'.args[1]
                others == {n \in 1..Len(_lines') : _lines'[n].id # id}
                sum == SumOver(_lines', others)
            IN size'.h = (_textRect.y + HeaderFontHeight + MarginsBottom)
                            + ((sum + AlphaOne - 1) \div AlphaOne)
                            + MarginsBottom]_vars

\* C5 witness: setLineAlpha(id, 0) found its line, which now has alpha 0,
\* another line has a fraction whose height is rounded up, and the height is
\* below that of the full list.
C5_Witness ==
    /\ last.op = "setLineAlpha"
    /\ last.flag
    /\ last.args[2] = 0
    /\ \E n \in 1..Len(_lines) :
        _lines[n].id = last.args[1] /\ _lines[n].alpha = 0
    /\ \E n \in 1..Len(_lines) :
        (_lines[n].alpha * (TextFontHeight + MidLineSpace)) % AlphaOne # 0
    /\ size.h < lineYAt(<<>>, _textRect, NumSeries) + MarginsBottom

\* C6: setLineAlpha with an id of no line of the list (any id while the
\* list is empty) changes no line, nor the active index, the header or the
\* mouse transparency.
C6_UnknownIdIgnored ==
    [][(/\ last'.op = "setLineAlpha"
        /\ \A n \in 1..Len(_lines) : _lines[n].id # last'.args[1]) =>
            UNCHANGED <<_lines, _xIndex, _header, transparent>>]_vars

\* C6 witness: the last call was a setLineAlpha that matched no line of a
\* list that has lines.
C6_Witness ==
    /\ last.op = "setLineAlpha"
    /\ ~last.flag
    /\ last.args[2] # AlphaOne
    /\ Len(_lines) = NumSeries

\* C7 as stated: lineYAt(0) is the header font height plus the margin.
C7_FirstLineAtHeaderPlusMargin ==
    lineYAt(_lines, _textRect, 0) = HeaderFontHeight + MarginsBottom

\* C7 amended: in every state lineYAt(0) is the top of the text rect (top
\* padding + top margin) plus the header font height plus the bottom
\* margin, whatever the alphas, the active index, the opacity and the size.
C7_FirstLineBelowHeader ==
    lineYAt(_lines, _textRect, 0)
        = (PaddingTop + MarginsTop) + HeaderFontHeight + MarginsBottom

\* C7 witness: a point is active, the first line is hidden and the widget
\* is faded out.
C7_Witness ==
    /\ _xIndex >= 0
    /\ _lines[1].alpha = 0
    /\ _alpha = 0

\* C8 as stated: only setLineAlpha changes the alpha of a series.
C8_AlphaChangedOnlyBySetLineAlpha ==
    [][last'.op = "setLineAlpha" \/ AlphaOf(_lines') = AlphaOf(_lines)]_vars

\* C8 amended: setLineAlpha(id, a) gives the lines with that id alpha a and
\* leaves the other alphas; setXIndex with a non-negative index builds the
\* lines anew, every alpha 1 again; every other step (setXIndex with a
\* negative index, setAlpha, painting) leaves every alpha as it is.
C8_AlphaSetOrReset ==
    [][/\ last'.op = "setLineAlpha" =>
            /\ Len(_lines') = Len(_lines)
            /\ \A n \in 1..Len(_lines) :
                _lines'[n].alpha
                    = IF _lines[n].id = last'.args[1]
                      THEN last'.args[2]
                      ELSE _lines[n].alpha
       /\ (last'.op = "setXIndex" /\ _xIndex' >= 0) =>
            \A n \in 1..Len(_lines') : _lines'[n].alpha = AlphaOne
       /\ (last'.op = "setXIndex" /\ _xIndex' < 0)
            \/ last'.op \in {"setAlpha", "paintEvent"} =>
                AlphaOf(_lines') = AlphaOf(_lines)]_vars

\* C8 witness: setXIndex has just built the lines anew on a widget whose
\* height is still that of a list with a hidden line.
C8_Witness ==
    /\ last.op = "setXIndex"
    /\ _xIndex >= 0
    /\ \A n \in 1..Len(_lines) : _lines[n].alpha = AlphaOne
    /\ size.h < lineYAt(_lines, _textRect, NumSeries) + MarginsBottom

\* C9 as stated: in every state the height is lineYAt(N) plus the bottom
\* margin for the alphas the lines have now.
C9_HeightFollowsAlphas ==
    size.h = lineYAt(_lines, _textRect, NumSeries) + MarginsBottom

\* C10: no step changes the width the constructor set, and the inner and the
\* text rect keep their left and top at the padding and at the padding plus
\* the margins.
C10_WidthFixed ==
    /\ [][size'.w = size.w]_vars
    /\ [](/\ _innerRect.x = PaddingLeft
          /\ _innerRect.y = PaddingTop
          /\ _textRect.x = PaddingLeft + MarginsLeft
          /\ _textRect.y = PaddingTop + MarginsTop
          /\ _innerRect.w = size.w - PaddingLeft - PaddingRight
          /\ _textRect.w = _innerRect.w - MarginsLeft - MarginsRight)

\* C10 witness: the height is no longer the one the constructor set.
C10_Witness ==
    /\ last.op = "setLineAlpha"
    /\ size.h # lineYAt(<<>>, _textRect, NumSeries) + MarginsBottom
    /\ size.w = Width

====
